---- MODULE Spec2Model ----
(***************************************************************************)
(* Connectivity subsystem of src/src/face_rec_web.py: the shared ESP       *)
(* connection record, the reconnect loop, the telemetry reader, the        *)
(* rediscovery loop and the command sender, as concurrent threads that     *)
(* interleave at every lock acquisition and every blocking socket call.    *)
(*                                                                         *)
(* Python strings are sequences of tokens (a newline is always a token of  *)
(* its own); Python values passed to send_command are tagged records.      *)
(* Sockets are small integers, 0 standing for None.                        *)
(***************************************************************************)
EXTENDS Integers, Sequences, FiniteSets, TLC

\* ------------------------------------------------------------------ data

\* Size of the pool of socket objects that can be referenced at once: one
\* per thread that can hold a reference (reconnector, reader, web caller).
NumSocks == 3

\* The longest buf a chunk is still appended to.
MaxBuf == 9

\* time.time() when the recognition loop starts.
FirstTime == 1
Socks == 1..NumSocks
NoSock == 0

NoneIp == "None"
DevIp == "192.168.1.50"
DefaultPort == 8088

NL == "\n"

\* str(e) of the exceptions the socket calls raise, and the fixed texts.
ErrRefused == "[Errno 111] Connection refused"
ErrReset == "[Errno 104] Connection reset by peer"
ErrPipe == "[Errno 32] Broken pipe"
ErrUnreach == "[Errno 113] No route to host"
ErrHandshake == "handshake failed (not esp32)"
ErrPeerClosed == "peer closed"
MsgNotYet == "Chua ket noi"

AUTO_START_ON_CONNECT == TRUE

HELLO_SIGNATURE == <<"\"hello\"", ":", "\"esp32\"">>

\* ------------------------------------------------------- python values

PyNone == [t |-> "none", s |-> <<>>, n |-> 0]
PyStr(toks) == [t |-> "str", s |-> toks, n |-> 0]
PyInt(i) == [t |-> "int", s |-> <<>>, n |-> i]

\* str.lower(), token by token.
LowerTok(tok) ==
  CASE tok = "ON" -> "on"
    [] tok = "Off" -> "off"
    [] tok = "OPEN" -> "open"
    [] tok = "Close" -> "close"
    [] tok = "LIGHT" -> "light"
    [] tok = "Start" -> "start"
    [] OTHER -> tok

Lower(toks) == [i \in 1..Len(toks) |-> LowerTok(toks[i])]

IsSpace(tok) == tok \in {" ", NL}

RECURSIVE LStrip(_)
LStrip(toks) ==
  IF toks # <<>> /\ IsSpace(Head(toks)) THEN LStrip(Tail(toks)) ELSE toks

RECURSIVE RStrip(_)
RStrip(toks) ==
  IF toks # <<>> /\ IsSpace(toks[Len(toks)])
  THEN RStrip(SubSeq(toks, 1, Len(toks) - 1))
  ELSE toks

\* str.strip()
Strip(toks) == RStrip(LStrip(toks))

\* str(value)
Str(value) ==
  CASE value.t = "str" -> value.s
    [] value.t = "int" -> <<ToString(value.n)>>
    [] OTHER -> <<"None">>

\* The decimal literals int() is given here.
IntLiteral(toks) ==
  CASE toks = <<"90">> -> 90
    [] toks = <<"300">> -> 300
    [] toks = <<"-10">> -> -10
    [] OTHER -> 0

IsIntLiteral(toks) == toks \in {<<"90">>, <<"300">>, <<"-10">>}

\* int() raising for None only.
IntRaisesForNone(value) == value.t = "none"

\* int(value) raises for None and for a string that is no literal.
IntRaises(value) ==
  \/ value.t = "none"
  \/ value.t = "str" /\ ~IsIntLiteral(Strip(value.s))

\* int(value), where it does not raise
int(value) == IF value.t = "int" THEN value.n ELSE IntLiteral(Strip(value.s))

Min(a, b) == IF a < b THEN a ELSE b
Max(a, b) == IF a > b THEN a ELSE b

\* bytes.decode("utf-8", "ignore"): bytes that are no UTF-8 are dropped.
BadByte == "\\xff"

RECURSIVE Decode(_)
Decode(bytes) ==
  IF bytes = <<>> THEN <<>>
  ELSE IF Head(bytes) = BadByte THEN Decode(Tail(bytes))
  ELSE <<Head(bytes)>> \o Decode(Tail(bytes))

\* needle in hay
Contains(hay, needle) ==
  \E i \in 1..(Len(hay) - Len(needle) + 1) :
    SubSeq(hay, i, i + Len(needle) - 1) = needle

\* -------------------------------------------------------- json frames

\* A dict is a function from its keys; {} is the function with no key.
EmptyDict == [k \in {} |-> ""]

\* dict.update
Update(d, e) ==
  [k \in (DOMAIN d) \cup (DOMAIN e) |-> IF k \in DOMAIN e THEN e[k] ELSE d[k]]

\* The tokens of the JSON texts received: strings, which can be keys, and
\* other scalars.
KeyToks == {"\"temp\"", "\"hum\"", "\"ack\""}
ValToks == {"20", "21", "50", "\"door:open\""}
ScalarToks == KeyToks \cup ValToks

AckKey == "\"ack\""

\* json.loads gives a dict: { key value ... } with string keys.
IsObject(text) ==
  /\ Len(text) >= 2 /\ text[1] = "{" /\ text[Len(text)] = "}"
  /\ Len(text) % 2 = 0
  /\ \A i \in 1..((Len(text) - 2) \div 2) :
       text[2 * i] \in KeyToks /\ text[2 * i + 1] \in ScalarToks

\* The dict of an object text: for a key given twice the last value.
ObjDict(text) ==
  LET n == (Len(text) - 2) \div 2
      at(k) == CHOOSE i \in 1..n :
                 text[2 * i] = k /\ \A j \in 1..n : text[2 * j] = k => j <= i
  IN  [k \in {text[2 * i] : i \in 1..n} |-> text[2 * at(k) + 1]]

\* json.loads gives a list of two-element lists of scalars: [ [a b] ... ].
IsPairs(text) ==
  /\ Len(text) >= 2 /\ text[1] = "[" /\ text[Len(text)] = "]"
  /\ (Len(text) - 2) % 4 = 0
  /\ \A i \in 1..((Len(text) - 2) \div 4) :
       /\ text[4 * i - 2] = "[" /\ text[4 * i + 1] = "]"
       /\ text[4 * i - 1] \in ScalarToks /\ text[4 * i] \in ScalarToks

\* What dict.update makes of such a list: each element a (key, value).
PairsDict(text) ==
  LET n == (Len(text) - 2) \div 4
      at(k) == CHOOSE i \in 1..n :
                 text[4 * i - 1] = k /\ \A j \in 1..n : text[4 * j - 1] = k => j <= i
  IN  [k \in {text[4 * i - 1] : i \in 1..n} |-> text[4 * at(k)]]

\* The ack test applied to every frame: an ack frame is merged too.
StoreMergingAcks(tel, ack, text) ==
  IF IsObject(text) THEN [tel |-> Update(tel, ObjDict(text)), ack |-> ack]
  ELSE IF IsPairs(text) THEN [tel |-> Update(tel, PairsDict(text)), ack |-> ack]
  ELSE [tel |-> tel, ack |-> ack]

\* _last_telemetry.update(data) replaced by an assignment.
StoreReplacing(tel, ack, text) ==
  IF IsObject(text)
  THEN IF AckKey \in DOMAIN ObjDict(text)
       THEN [tel |-> tel, ack |-> ObjDict(text)]
       ELSE [tel |-> ObjDict(text), ack |-> ack]
  ELSE IF IsPairs(text) THEN [tel |-> PairsDict(text), ack |-> ack]
  ELSE [tel |-> tel, ack |-> ack]

\* Lines 413-421 on the decoded text of one line: json.loads, then the ack
\* record or the update of the snapshot; json.loads or update raising
\* leaves both as they were.
Store(tel, ack, text) ==
  IF IsObject(text)
  THEN IF AckKey \in DOMAIN ObjDict(text)
       THEN [tel |-> tel, ack |-> ObjDict(text)]
       ELSE [tel |-> Update(tel, ObjDict(text)), ack |-> ack]
  ELSE IF IsPairs(text) THEN [tel |-> Update(tel, PairsDict(text)), ack |-> ack]
  ELSE [tel |-> tel, ack |-> ack]

\* b"\n" in buf
HasLine(b) == \E i \in 1..Len(b) : b[i] = NL

\* buf.split(b"\n", 1): the first line and the rest.
FirstNL(b) == CHOOSE i \in 1..Len(b) : b[i] = NL /\ \A j \in 1..(i - 1) : b[j] # NL
Line(b) == SubSeq(b, 1, FirstNL(b) - 1)
Rest(b) == SubSeq(b, FirstNL(b) + 1, Len(b))

\* ------------------------------------------------------- command sender

Result(ok, msg) == [ok |-> ok, msg |-> msg]

\* What send_command does before send_to_esp_raw: either it returns a
\* validation failure (call = FALSE, res) or it calls send_to_esp_raw(cmd).
Reject(text) == [call |-> FALSE, cmd |-> <<>>, res |-> Result(FALSE, <<text>>)]
Forward(cmd) == [call |-> TRUE, cmd |-> cmd, res |-> Result(FALSE, <<>>)]

\* The clamp without its upper end.
ClampAngleNoUpper(angle) == Max(0, angle)

\* max(0, min(180, angle))
ClampAngle(angle) == Max(0, Min(180, angle))

send_command(kind, value, index) ==
  LET k == Strip(Lower(IF kind.t = "str" THEN kind.s ELSE <<>>))
      state == Lower(Str(value))
  IN  CASE k = <<"light">> ->
             IF ~(index.t = "int" /\ index.n \in {1, 2, 3})
             THEN Reject("invalid light index")
             ELSE IF state \notin {<<"on">>, <<"off">>}
             THEN Reject("invalid light state")
             ELSE Forward(<<"light", ToString(index.n), ":">> \o state)
        [] k = <<"fan">> ->
             IF state \notin {<<"on">>, <<"off">>}
             THEN Reject("invalid fan state")
             ELSE Forward(<<"fan", ":">> \o state)
        [] k = <<"door">> ->
             IF state \notin {<<"open">>, <<"close">>}
             THEN Reject("invalid door state")
             ELSE Forward(<<"door", ":">> \o state)
        [] k = <<"servo">> ->
             IF IntRaises(value)
             THEN Reject("invalid servo angle")
             ELSE Forward(<<"servo", ":", ToString(ClampAngle(int(value)))>>)
        [] k = <<"led">> ->
             IF state \notin {<<"on">>, <<"off">>}
             THEN Reject("invalid led state")
             ELSE Forward(<<"light", "1", ":">> \o state)
        [] k = <<"start">> -> Forward(<<"start">>)
        [] k = <<"ping">> -> Forward(<<"ping">>)
        [] k = <<"raw">> ->
             IF ~(value.t = "str" /\ value.s # <<>>)
             THEN Reject("invalid raw command")
             ELSE Forward(value.s)
        [] OTHER -> Reject("unknown command")

\* send_to_esp_raw's first statement: append a newline unless cmd ends in one.
WithNewline(cmd) ==
  IF cmd # <<>> /\ cmd[Len(cmd)] = NL THEN cmd ELSE Append(cmd, NL)

\* ---------------------------------------------------------------- state

\* The threads that call send_command: the reconnector (auto-start), a
\* caller of the web API and main's recognition loop.
Callers == {"rec", "web", "main"}

VARIABLES
  esp,        \* _esp: sock, connected, ip, port, last_error
  target,     \* _target: ip, port
  sent_start_after_connect,   \* _sent_start_after_connect
  rec,        \* esp_reconnector: pc and locals ip, port, s, hello, e
  rdr,        \* telemetry_reader: pc and locals s, ip, port, e
  red,        \* rediscover_loop: pc and locals connected, port, ip_found
  snd,        \* per caller, the send_command / send_to_esp_raw call in progress
  socks,      \* the socket objects: open or closed, and what happened on each
  dev,        \* what is at DevIp: the ESP32 ("esp") or anything else ("other")
  buf,        \* telemetry_reader's buf: the bytes received and not yet framed
  last_telemetry,   \* _last_telemetry
  last_ack,   \* _last_ack
  esp_lock,   \* _esp_lock: "free" or the thread that holds it
  setter,     \* per thread in _set_esp_state: pc, its arguments, fields written
  getter,     \* per thread reading _esp: pc, fields read so far, what it read
  published,  \* the records _set_esp_state was called with, and the first one
  scan,       \* discover_esp_ip: the candidates' answers, the futures, the result
  now,        \* time.time(), in seconds
  start_time, \* main's start_time
  sent,       \* main's sent
  cam,        \* main's recognition loop: pc, the faces of the frame, and what
              \* the frames so far showed
  thr         \* per thread, where it is in its lock and socket operations
              \* and the locks it holds

telemetryVars == <<buf, last_telemetry, last_ack>>

lockVars == <<esp_lock, setter, getter, published>>

sideVars == <<scan, now, start_time, sent, cam, thr>>

vars == <<esp, target, sent_start_after_connect, rec, rdr, red, snd, socks, dev,
          buf, last_telemetry, last_ack, esp_lock, setter, getter, published,
          scan, now, start_time, sent, cam, thr>>

\* The threads that can be inside _set_esp_state at once, and the readers of
\* _esp that read more than one field.
Setters == {"esp_reconnector", "telemetry_reader"}
Getters == {"status", "send_to_esp_raw", "telemetry_reader"}

\* The keys of _esp in the order of the dict literal of line 111.
Fields == <<"sock", "connected", "ip", "port", "last_error">>

\* The keys each reader reads, in the order it reads them (lines 87-90, 119,
\* 395-396).
Reads(g) ==
  CASE g = "status" -> <<"connected", "ip", "port", "last_error">>
    [] g = "send_to_esp_raw" -> <<"sock", "connected", "ip", "port">>
    [] OTHER -> <<"connected", "sock", "ip", "port">>

\* Line 76: _esp as the module creates it.
FirstEsp ==
  [sock |-> NoSock, connected |-> FALSE, ip |-> "", port |-> 0, last_error |-> ""]

IdleSetter == [pc |-> "idle", args |-> FirstEsp, n |-> 0]
IdleGetter == [pc |-> "idle", n |-> 0, seen |-> FirstEsp]

\* No thread is inside a lock section taken field by field.
NoLockStep ==
  /\ esp_lock = "free"
  /\ setter = [w \in Setters |-> IdleSetter]
  /\ getter = [g \in Getters |-> IdleGetter]
  /\ published = {}

\* The scan's result when no candidate matched (None in the source).
NoCand == 0

\* discover_esp_ip not running.
ScanIdle == [pc |-> "idle", answers |-> <<>>, completed |-> <<>>, taken |-> 0,
             result |-> NoCand]

\* Lines 669-670, and no frame seen yet. faces: the faces of the frame still
\* to be processed. gap: the time of the last frame that showed no confidence
\* above 0.8; reset: the time of the last frame with no face or with a
\* confidence at or below 0.8; fires: the calls made since that frame;
\* total: the calls made so far (counted up to two).
CamIdle == [pc |-> "frame", faces |-> <<>>, gap |-> FirstTime, reset |-> FirstTime,
            fires |-> 0, total |-> 0]

\* The threads that take locks: the three loops, the two queries, a web
\* request that sends a command, and main (recognition loop and shutdown).
Threads == {"esp_reconnector", "telemetry_reader", "rediscover_loop",
            "status", "telemetry", "send_command", "main"}

\* No scan is running, the recognition loop has not started, every thread
\* is at the top of its code and holds no lock.
NoSideStep ==
  /\ scan = ScanIdle
  /\ now = FirstTime /\ start_time = 0 /\ sent = FALSE
  /\ cam = CamIdle
  /\ thr = [t \in Threads |-> [pc |-> 1, held |-> {}]]

\* A socket object nobody references: st = "free". failed: NotConnected has
\* been published for a failure seen on it; pub: it has been published as the
\* Connected socket; starts: how many times the auto-start was written to it.
FreeSock == [st |-> "free", failed |-> FALSE, pub |-> FALSE, starts |-> 0]
NewSock == [FreeSock EXCEPT !.st = "open"]

\* The record _set_esp_state installs (ip or "").
SetEspState(sock, connected, ip, port, last_error) ==
  [sock |-> sock, connected |-> connected,
   ip |-> IF ip = NoneIp THEN "" ELSE ip, port |-> port,
   last_error |-> last_error]

\* The JSON body of /status, read under the lock.
status ==
  [esp_connected |-> esp.connected, ip |-> esp.ip, port |-> esp.port,
   last_error |-> esp.last_error]

\* rediscover_loop at the top of its loop; its locals are assigned before
\* they are read again.
RedIdle == [pc |-> "conn", connected |-> FALSE, port |-> 0, ip_found |-> NoneIp]

IdleCall ==
  [pc |-> "idle", kind |-> PyNone, value |-> PyNone, index |-> PyNone,
   cmd |-> <<>>, s |-> NoSock, ip |-> "", port |-> 0, e |-> "",
   res |-> Result(FALSE, <<>>), wrote |-> <<>>, sends |-> 0]

NotConnectedResult == Result(FALSE, <<"esp not connected">>)

\* send_command(kind, value, index) up to the first socket call: validation
\* (lines 141-188), then in send_to_esp_raw the newline (116-117), the copy
\* of the shared record taken under the lock (118-119) and the test on it
\* (120, 127). e is the shared record at that moment.
Called(kind, value, index, e) ==
  LET r == send_command(kind, value, index)
      c == [IdleCall EXCEPT !.kind = kind, !.value = value, !.index = index]
  IN  IF ~r.call
      THEN [c EXCEPT !.pc = "done", !.res = r.res]
      ELSE IF e.sock # NoSock /\ e.connected
      THEN [c EXCEPT !.pc = "send", !.cmd = WithNewline(r.cmd), !.s = e.sock,
                     !.ip = e.ip, !.port = e.port]
      ELSE [c EXCEPT !.pc = "done", !.cmd = WithNewline(r.cmd),
                     !.res = NotConnectedResult]

\* The socket objects some thread or the shared record still references; an
\* object no longer referenced is finalized (its descriptor is released).
Refs(e, r, d, sn) == ({e.sock, r.s, d.s} \cup {sn[t].s : t \in Callers}) \ {NoSock}

Collect(sk, e, r, d, sn) ==
  [k \in Socks |-> IF k \in Refs(e, r, d, sn) THEN sk[k] ELSE FreeSock]

\* main(), lines 624-638: the target is found, configured or unknown, the
\* state is published once, and the three loops start.
Init ==
  /\ target \in {[ip |-> i, port |-> DefaultPort] : i \in {NoneIp, DevIp}}
  /\ esp = SetEspState(NoSock, FALSE, target.ip, target.port, MsgNotYet)
  /\ sent_start_after_connect = FALSE
  /\ rec = [pc |-> "check", ip |-> NoneIp, port |-> 0, s |-> NoSock,
            hello |-> <<>>, e |-> ""]
  /\ rdr = [pc |-> "read", s |-> NoSock, ip |-> "", port |-> 0, e |-> "", carried |-> 0]
  /\ red = RedIdle
  /\ snd = [t \in Callers |-> IdleCall]
  /\ socks = [k \in Socks |-> FreeSock]
  /\ dev \in {"esp", "other"}
  /\ buf = <<>>
  /\ last_telemetry = EmptyDict
  /\ last_ack = EmptyDict
  /\ NoLockStep /\ NoSideStep

\* ---------------------------------------------------------- environment

GreetingEsp == <<"{", "\"hello\"", ":", "\"esp32\"", "}", NL>>

\* What recv(256) gives during the handshake or a probe, by what answers.
Bytes(data) == [kind |-> "bytes", data |-> data]
Timeout == [kind |-> "timeout", data |-> <<>>]
RecvError == [kind |-> "error", data |-> <<>>]

HelloOutcomes(d) ==
  CASE d = "esp" -> {Bytes(GreetingEsp), Bytes(<<BadByte>> \o GreetingEsp)}
    [] OTHER ->
         {Bytes(<<"{", "\"hello\"", ":", "\"esp8266\"", "}", NL>>),
          Bytes(<<"{", "\"hello\"", BadByte, ":", "\"esp32\"", "}", NL>>),
          Bytes(<<"{", "\"hello\"">>), Bytes(<<>>), Timeout, RecvError}

\* Whether s.connect succeeds: the ESP32 accepts; anything else may refuse.
ConnectOutcomes(d) == IF d = "esp" THEN {TRUE} ELSE {TRUE, FALSE}

\* The device reboots, is replaced by another host, or goes away.
EnvChange ==
  /\ dev' \in {"esp", "other"} \ {dev}
  /\ UNCHANGED <<esp, target, sent_start_after_connect, rec, rdr, red, snd, socks, telemetryVars, lockVars, sideVars>>

\* ---------------------------------------------------------- reconnector

\* HELLO_SIGNATURE in (hello or b"").decode("utf-8", "ignore")
HasSignature(hello) == Contains(Decode(hello), HELLO_SIGNATURE)

\* The reset of line 375 left out: the flag keeps its value.
RearmForgotten(flag) == flag

\* Line 375: the flag is reset for the new connection.
Rearm(flag) == FALSE

StartKind == PyStr(<<"start">>)

\* Lines 347-349 (and the sleep of line 388 before them).
R_check ==
  /\ rec.pc = "check"
  /\ rec' = [rec EXCEPT !.pc = IF esp.connected THEN "check" ELSE "target"]
  /\ UNCHANGED <<esp, target, sent_start_after_connect, rdr, red, snd, socks, dev, telemetryVars, lockVars, sideVars>>

\* Lines 350-354.
R_target ==
  /\ rec.pc = "target"
  /\ rec' = IF target.ip = NoneIp
            THEN [rec EXCEPT !.pc = "check", !.ip = NoneIp, !.port = target.port]
            ELSE [rec EXCEPT !.pc = "connect", !.ip = target.ip, !.port = target.port]
  /\ UNCHANGED <<esp, target, sent_start_after_connect, rdr, red, snd, socks, dev, telemetryVars, lockVars, sideVars>>

\* Lines 356-358: a new socket object replaces the local s; connect succeeds
\* or raises.
R_connect ==
  /\ rec.pc = "connect"
  /\ \E k \in Socks :
       /\ k \notin Refs(esp, [rec EXCEPT !.s = NoSock], rdr, snd)
       /\ \A j \in Socks :
            j \notin Refs(esp, [rec EXCEPT !.s = NoSock], rdr, snd) => k <= j
       /\ \E connected \in ConnectOutcomes(dev) :
            rec' = IF connected
                   THEN [rec EXCEPT !.pc = "handshake", !.s = k]
                   ELSE [rec EXCEPT !.pc = "fail", !.s = k, !.e = ErrRefused]
       /\ socks' = Collect([socks EXCEPT ![k] = NewSock], esp, rec', rdr, snd)
  /\ UNCHANGED <<esp, target, sent_start_after_connect, rdr, red, snd, dev, telemetryVars, lockVars, sideVars>>

\* Lines 361-366: the handshake read gives bytes, times out (hello stays
\* b"") or raises.
R_handshake ==
  /\ rec.pc = "handshake"
  /\ \E h \in HelloOutcomes(dev) :
       rec' = IF h.kind = "error"
              THEN [rec EXCEPT !.pc = "fail", !.e = ErrReset]
              ELSE [rec EXCEPT !.pc = "verify", !.hello = h.data]
  /\ UNCHANGED <<esp, target, sent_start_after_connect, rdr, red, snd, socks, dev, telemetryVars, lockVars, sideVars>>

\* Lines 367-370: the signature test, and the close and raise when it fails
\* (hello is not read after the test).
R_verify ==
  /\ rec.pc = "verify"
  /\ IF HasSignature(rec.hello)
     THEN /\ rec' = [rec EXCEPT !.pc = "publish", !.hello = <<>>]
          /\ socks' = socks
     ELSE /\ rec' = [rec EXCEPT !.pc = "fail", !.hello = <<>>, !.e = ErrHandshake]
          /\ socks' = [socks EXCEPT ![rec.s].st = "closed"]
  /\ UNCHANGED <<esp, target, sent_start_after_connect, rdr, red, snd, dev, telemetryVars, lockVars, sideVars>>

\* Lines 372-374.
R_publish ==
  /\ rec.pc = "publish"
  /\ esp' = SetEspState(rec.s, TRUE, rec.ip, rec.port, "")
  /\ rec' = [rec EXCEPT !.pc = "rearm"]
  /\ socks' = Collect([socks EXCEPT ![rec.s].pub = TRUE], esp', rec', rdr, snd)
  /\ UNCHANGED <<target, sent_start_after_connect, rdr, red, snd, dev, telemetryVars, lockVars, sideVars>>

\* Lines 375-379: the flag is reset and tested, and send_command("start") runs
\* up to its first socket call.
R_rearm ==
  /\ rec.pc = "rearm"
  /\ sent_start_after_connect' = Rearm(sent_start_after_connect)
  /\ IF AUTO_START_ON_CONNECT /\ ~sent_start_after_connect'
     THEN /\ rec' = [rec EXCEPT !.pc = "start"]
          /\ snd' = [snd EXCEPT !["rec"] = Called(StartKind, PyNone, PyNone, esp)]
     ELSE /\ rec' = [rec EXCEPT !.pc = "check"]
          /\ snd' = snd
  /\ socks' = Collect(socks, esp, rec', rdr, snd')
  /\ UNCHANGED <<esp, target, rdr, red, dev, telemetryVars, lockVars, sideVars>>

\* Lines 380-384: send_command has returned (ok2, msg2).
R_started ==
  /\ rec.pc = "start"
  /\ snd["rec"].pc = "done"
  /\ sent_start_after_connect' =
       IF snd["rec"].res.ok THEN TRUE ELSE sent_start_after_connect
  /\ snd' = [snd EXCEPT !["rec"] = IdleCall]
  /\ rec' = [rec EXCEPT !.pc = "check"]
  /\ UNCHANGED <<esp, target, rdr, red, socks, dev, telemetryVars, lockVars, sideVars>>

\* The except clause re-raising after it has published: the thread ends.
R_failFatal ==
  /\ rec.pc = "fail"
  /\ esp' = SetEspState(NoSock, FALSE, rec.ip, rec.port, rec.e)
  /\ rec' = [rec EXCEPT !.pc = "dead", !.e = ""]
  /\ socks' = Collect([socks EXCEPT ![rec.s].failed = TRUE], esp', rec', rdr, snd)
  /\ UNCHANGED <<target, sent_start_after_connect, rdr, red, snd, dev, telemetryVars, lockVars, sideVars>>

\* A reconnector that gives the address up when an attempt to connect to
\* it fails.
R_failForgetsTarget ==
  /\ rec.pc = "fail"
  /\ esp' = SetEspState(NoSock, FALSE, rec.ip, rec.port, rec.e)
  /\ target' = [target EXCEPT !.ip = NoneIp]
  /\ rec' = [rec EXCEPT !.pc = "check", !.e = ""]
  /\ socks' = Collect([socks EXCEPT ![rec.s].failed = TRUE], esp', rec', rdr, snd)
  /\ UNCHANGED <<sent_start_after_connect, rdr, red, snd, dev, telemetryVars, lockVars, sideVars>>

\* Lines 386-387: except socket.error.
R_fail ==
  /\ rec.pc = "fail"
  /\ esp' = SetEspState(NoSock, FALSE, rec.ip, rec.port, rec.e)
  /\ rec' = [rec EXCEPT !.pc = "check", !.e = ""]
  /\ socks' = Collect([socks EXCEPT ![rec.s].failed = TRUE], esp', rec', rdr, snd)
  /\ UNCHANGED <<target, sent_start_after_connect, rdr, red, snd, dev, telemetryVars, lockVars, sideVars>>

\* ------------------------------------------------------ send_to_esp_raw

\* What one s.send on socket k by thread t leaves on the socket object.
AfterSend(sk, t, k, written) ==
  [sk EXCEPT ![k].starts = IF written /\ t = "rec" THEN Min(sk[k].starts + 1, 2)
                           ELSE sk[k].starts]

\* Lines 121-124: s.send returns, or raises socket.error.
S_send(t) ==
  /\ snd[t].pc = "send"
  /\ \E delivered \in BOOLEAN :
       /\ snd' = IF delivered
                 THEN [snd EXCEPT ![t].pc = "done", ![t].s = NoSock,
                                  ![t].wrote = snd[t].cmd,
                                  ![t].sends = snd[t].sends + 1,
                                  ![t].res = Result(TRUE, <<"sent">>)]
                 ELSE [snd EXCEPT ![t].pc = "pub", ![t].e = ErrPipe,
                                  ![t].sends = snd[t].sends + 1]
       /\ socks' = Collect(AfterSend(socks, t, snd[t].s, delivered), esp, rec, rdr, snd')
  /\ UNCHANGED <<esp, target, sent_start_after_connect, rec, rdr, red, dev, telemetryVars, lockVars, sideVars>>

\* The except branch without the _set_esp_state of line 125.
S_pubSilent(t) ==
  /\ snd[t].pc = "pub"
  /\ snd' = [snd EXCEPT ![t].pc = "done", ![t].s = NoSock,
                         ![t].res = Result(FALSE, <<"socket error: ", snd[t].e>>)]
  /\ socks' = Collect(socks, esp, rec, rdr, snd')
  /\ UNCHANGED <<esp, target, sent_start_after_connect, rec, rdr, red, dev, telemetryVars, lockVars, sideVars>>

\* Lines 125-126.
S_pub(t) ==
  /\ snd[t].pc = "pub"
  /\ esp' = SetEspState(NoSock, FALSE, snd[t].ip, snd[t].port, snd[t].e)
  /\ snd' = [snd EXCEPT ![t].pc = "done", ![t].s = NoSock,
                         ![t].res = Result(FALSE, <<"socket error: ", snd[t].e>>)]
  /\ socks' = Collect([socks EXCEPT ![snd[t].s].failed = TRUE], esp', rec, rdr, snd')
  /\ UNCHANGED <<target, sent_start_after_connect, rec, rdr, red, dev, telemetryVars, lockVars, sideVars>>

\* ------------------------------------------------------------ web caller

\* A send_command that publishes NotConnected when it finds no connection.
CallFromPublishing(K, V, I) ==
  /\ snd["web"].pc = "idle"
  /\ \E kind \in K, value \in V, index \in I :
       /\ snd' = [snd EXCEPT !["web"] = Called(kind, value, index, esp)]
       /\ esp' = IF snd'["web"].res = NotConnectedResult
                 THEN SetEspState(NoSock, FALSE, esp.ip, esp.port, "esp not connected")
                 ELSE esp
  /\ socks' = Collect(socks, esp', rec, rdr, snd')
  /\ UNCHANGED <<target, sent_start_after_connect, rec, rdr, red, dev, telemetryVars, lockVars, sideVars>>

\* A caller on another thread calls send_command(kind, value, index), the
\* arguments drawn from K, V and I.
CallFrom(K, V, I) ==
  /\ snd["web"].pc = "idle"
  /\ \E kind \in K, value \in V, index \in I :
       snd' = [snd EXCEPT !["web"] = Called(kind, value, index, esp)]
  /\ socks' = Collect(socks, esp, rec, rdr, snd')
  /\ UNCHANGED <<esp, target, sent_start_after_connect, rec, rdr, red, dev, telemetryVars, lockVars, sideVars>>

\* api_fan, lines 221-226: send_command("fan", state) with state on or off.
W_call == CallFrom({PyStr(<<"fan">>)}, {PyStr(<<"on">>)}, {PyNone})

\* send_command has returned to the handler.
W_return ==
  /\ snd["web"].pc = "done"
  /\ snd' = [snd EXCEPT !["web"] = IdleCall]
  /\ UNCHANGED <<esp, target, sent_start_after_connect, rec, rdr, red, socks, dev, telemetryVars, lockVars, sideVars>>

\* ------------------------------------------------------ telemetry_reader

\* Lines 394-399. carried: how many bytes at the head of buf (line 392, never
\* reset) were received on a socket other than the one now read.
T_read ==
  /\ rdr.pc = "read"
  /\ rdr' = IF esp.connected /\ esp.sock # NoSock
            THEN [rdr EXCEPT !.pc = "recv", !.s = esp.sock,
                             !.ip = esp.ip, !.port = esp.port,
                             !.carried = IF esp.sock # rdr.s THEN Len(buf) ELSE @]
            ELSE [rdr EXCEPT !.s = NoSock, !.ip = "", !.port = 0]
  /\ socks' = Collect(socks, esp, rec, rdr', snd)
  /\ UNCHANGED <<esp, target, sent_start_after_connect, rec, red, snd, dev, telemetryVars, lockVars, sideVars>>

\* What s.recv(4096) gives: a timeout, an error, b"" or one of the chunks.
ChunkOutcomes(Chunks) ==
  {Timeout, RecvError, Bytes(<<>>)} \cup {Bytes(c) : c \in Chunks \ {<<>>}}

\* Lines 400-406 and 422-424 with the chunks the peer can send: the poll
\* times out, raises, returns b"" or returns bytes, which are appended to buf.
RecvFrom(Chunks) ==
  /\ rdr.pc = "recv"
  /\ \E o \in ChunkOutcomes(Chunks) :
       /\ Len(buf) + Len(o.data) <= MaxBuf
       /\ buf' = buf \o o.data
       /\ rdr' = CASE o = Bytes(<<>>) -> [rdr EXCEPT !.pc = "pub", !.e = ErrPeerClosed]
                   [] o = RecvError -> [rdr EXCEPT !.pc = "pub", !.e = ErrUnreach]
                   [] OTHER -> [rdr EXCEPT !.pc = IF HasLine(buf') THEN "frames"
                                                 ELSE "read"]
  /\ UNCHANGED <<esp, target, sent_start_after_connect, rec, red, snd, socks, dev,
                 last_telemetry, last_ack, lockVars, sideVars>>

\* An idle peer sends nothing, or an empty line.
KeepAlive == {<<NL>>}

\* The except socket.timeout clause of lines 422-423 left out: a poll
\* timeout falls into except Exception.
T_recvTimeoutFails ==
  /\ rdr.pc = "recv"
  /\ \E o \in ChunkOutcomes(KeepAlive) :
       /\ buf' = buf \o o.data
       /\ rdr' = CASE o = Bytes(<<>>) -> [rdr EXCEPT !.pc = "pub", !.e = ErrPeerClosed]
                   [] o = RecvError -> [rdr EXCEPT !.pc = "pub", !.e = ErrUnreach]
                   [] o = Timeout -> [rdr EXCEPT !.pc = "pub", !.e = "timed out"]
                   [] OTHER -> [rdr EXCEPT !.pc = IF HasLine(buf') THEN "frames"
                                                 ELSE "read"]
  /\ UNCHANGED <<esp, target, sent_start_after_connect, rec, red, snd, socks, dev,
                 last_telemetry, last_ack, lockVars, sideVars>>

\* The reader on the connection of an idle peer.
T_recv == RecvFrom(KeepAlive)

\* The try of line 412 put around the while loop: a line that raises ends
\* the loop and the rest of buf is dropped.
T_frameGivesUp ==
  /\ rdr.pc = "frames"
  /\ LET line == Strip(Line(buf))
         text == Decode(line)
         bad == line # <<>> /\ ~IsObject(text) /\ ~IsPairs(text)
         r == IF line = <<>> THEN [tel |-> last_telemetry, ack |-> last_ack]
              ELSE Store(last_telemetry, last_ack, text)
     IN  /\ buf' = IF bad THEN <<>> ELSE Rest(buf)
         /\ last_telemetry' = r.tel
         /\ last_ack' = r.ack
         /\ rdr' = [rdr EXCEPT !.pc = IF HasLine(buf') THEN "frames" ELSE "read",
                               !.carried = Max(0, @ - (Len(buf) - Len(buf')))]
  /\ UNCHANGED <<esp, target, sent_start_after_connect, rec, red, snd, socks, dev,
                 lockVars, sideVars>>

\* Lines 407-421, one turn of the while loop: a line is split off buf,
\* stripped, and if not empty decoded, parsed and stored.
T_frame ==
  /\ rdr.pc = "frames"
  /\ LET line == Strip(Line(buf))
         r == IF line = <<>> THEN [tel |-> last_telemetry, ack |-> last_ack]
              ELSE Store(last_telemetry, last_ack, Decode(line))
     IN  /\ buf' = Rest(buf)
         /\ last_telemetry' = r.tel
         /\ last_ack' = r.ack
         /\ rdr' = [rdr EXCEPT !.pc = IF HasLine(buf') THEN "frames" ELSE "read",
                               !.carried = Max(0, @ - (Len(buf) - Len(buf')))]
  /\ UNCHANGED <<esp, target, sent_start_after_connect, rec, red, snd, socks, dev,
                 lockVars, sideVars>>

\* A reader that forgets the last values when it publishes the failure.
T_pubClearsTelemetry ==
  /\ rdr.pc = "pub"
  /\ esp' = SetEspState(NoSock, FALSE, rdr.ip, rdr.port, rdr.e)
  /\ rdr' = [rdr EXCEPT !.pc = "read", !.e = ""]
  /\ socks' = Collect([socks EXCEPT ![rdr.s].failed = TRUE], esp', rec, rdr', snd)
  /\ last_telemetry' = EmptyDict /\ last_ack' = EmptyDict
  /\ UNCHANGED <<target, sent_start_after_connect, rec, red, snd, dev, buf, lockVars, sideVars>>

\* The publication of lines 404 and 425 passing s instead of None.
T_pubKeepsSock ==
  /\ rdr.pc = "pub"
  /\ esp' = SetEspState(rdr.s, FALSE, rdr.ip, rdr.port, rdr.e)
  /\ rdr' = [rdr EXCEPT !.pc = "read", !.e = ""]
  /\ socks' = Collect([socks EXCEPT ![rdr.s].failed = TRUE], esp', rec, rdr', snd)
  /\ UNCHANGED <<target, sent_start_after_connect, rec, red, snd, dev, telemetryVars, lockVars, sideVars>>

\* Lines 404-405 and 425-426.
T_pub ==
  /\ rdr.pc = "pub"
  /\ esp' = SetEspState(NoSock, FALSE, rdr.ip, rdr.port, rdr.e)
  /\ rdr' = [rdr EXCEPT !.pc = "read", !.e = ""]
  /\ socks' = Collect([socks EXCEPT ![rdr.s].failed = TRUE], esp', rec, rdr', snd)
  /\ UNCHANGED <<target, sent_start_after_connect, rec, red, snd, dev, telemetryVars, lockVars, sideVars>>

\* ------------------------------------------------------- rediscover_loop

\* discover_esp_ip as seen by the loop: an address whose probe read the
\* signature, or None.
ScanOutcomes(d) == IF d = "esp" THEN {DevIp, NoneIp} ELSE {NoneIp}

\* Lines 430-431.
D_conn ==
  /\ red.pc = "conn"
  /\ red' = [red EXCEPT !.pc = "tgt", !.connected = esp.connected]
  /\ UNCHANGED <<esp, target, sent_start_after_connect, rec, rdr, snd, socks, dev, telemetryVars, lockVars, sideVars>>

\* The test of line 435 without its second half: a scan whenever the
\* record read was not connected.
D_tgtScansAnyway ==
  /\ red.pc = "tgt"
  /\ red' = IF ~red.connected
            THEN [red EXCEPT !.pc = "scan", !.port = target.port]
            ELSE [red EXCEPT !.pc = "conn", !.connected = FALSE]
  /\ UNCHANGED <<esp, target, sent_start_after_connect, rec, rdr, snd, socks, dev, telemetryVars, lockVars, sideVars>>

\* Lines 432-435 (and the sleep of line 442 when the test fails).
D_tgt ==
  /\ red.pc = "tgt"
  /\ red' = IF ~red.connected /\ target.ip = NoneIp
            THEN [red EXCEPT !.pc = "scan", !.port = target.port]
            ELSE [red EXCEPT !.pc = "conn", !.connected = FALSE]
  /\ UNCHANGED <<esp, target, sent_start_after_connect, rec, rdr, snd, socks, dev, telemetryVars, lockVars, sideVars>>

\* Lines 436-437.
D_scan ==
  /\ red.pc = "scan"
  /\ \E found \in ScanOutcomes(dev) :
       red' = IF found # NoneIp
              THEN [red EXCEPT !.pc = "set", !.ip_found = found]
              ELSE RedIdle
  /\ UNCHANGED <<esp, target, sent_start_after_connect, rec, rdr, snd, socks, dev, telemetryVars, lockVars, sideVars>>

\* Lines 439-440.
D_set ==
  /\ red.pc = "set"
  /\ target' = [target EXCEPT !.ip = red.ip_found]
  /\ red' = [red EXCEPT !.pc = "pub"]
  /\ UNCHANGED <<esp, sent_start_after_connect, rec, rdr, snd, socks, dev, telemetryVars, lockVars, sideVars>>

\* Lines 441-442.
D_pub ==
  /\ red.pc = "pub"
  /\ esp' = SetEspState(NoSock, FALSE, red.ip_found, red.port, MsgNotYet)
  /\ red' = RedIdle
  /\ socks' = Collect(socks, esp', rec, rdr, snd)
  /\ UNCHANGED <<target, sent_start_after_connect, rec, rdr, snd, dev, telemetryVars, lockVars, sideVars>>

\* ------------------------------------------------------------ the system

RecNext ==
  \/ R_check \/ R_target \/ R_connect \/ R_handshake \/ R_verify \/ R_publish
  \/ R_rearm \/ R_started \/ R_fail
  \/ S_send("rec") \/ S_pub("rec")

WebNext == W_call \/ S_send("web") \/ S_pub("web") \/ W_return

RdrNext == T_read \/ T_recv \/ T_frame \/ T_pub

RedNext == D_conn \/ D_tgt \/ D_scan \/ D_set \/ D_pub

Next == RecNext \/ WebNext \/ RdrNext \/ RedNext \/ EnvChange

Spec == Init /\ [][Next]_vars

\* The three loops with no request coming in from the web. The loops are
\* threads the interpreter keeps scheduling; what the environment does is
\* under no obligation.
LiveNext == RecNext \/ RdrNext \/ RedNext \/ EnvChange

LiveSpec ==
  /\ Init /\ [][LiveNext]_vars
  /\ WF_vars(RecNext) /\ WF_vars(RdrNext) /\ WF_vars(RedNext)

\* ----------------------------------------------- the reader on its own

\* telemetry(), lines 93-99: a copy of the snapshot, with the ack record
\* under "ack" if there is one.
telemetry ==
  [k \in (DOMAIN last_telemetry) \cup (IF last_ack # EmptyDict THEN {AckKey} ELSE {}) |->
     IF k = AckKey /\ last_ack # EmptyDict
     THEN [dict |-> last_ack]
     ELSE [scalar |-> last_telemetry[k]]]

\* Frames of the device: telemetry, acks (one with a telemetry field in it).
FrameTemp20 == <<"{", "\"temp\"", "20", "}">>
FrameTemp21 == <<"{", "\"temp\"", "21", "}">>
FrameHum50 == <<"{", "\"hum\"", "50", "}">>
FrameAck == <<"{", AckKey, "\"door:open\"", "}">>
FrameAckTemp == <<"{", AckKey, "\"door:open\"", "\"temp\"", "21", "}">>

\* What one recv can return: whole frames, a frame in two chunks, a frame
\* with a byte that is no UTF-8, a scalar, a list of pairs, a line that is no
\* JSON alone and before a frame, empty and blank lines.
FrameChunks ==
  {Append(f, NL) : f \in {FrameTemp20, FrameTemp21, FrameHum50, FrameAck, FrameAckTemp}}
    \cup {<<"{", "\"temp\"">>, <<"21", "}", NL>>, <<"{", "\"temp\"", NL>>,
          <<"{", BadByte, "\"hum\"", "50", "}", NL>>,
          <<"20", NL>>,
          <<"[", "[", "\"hum\"", "20", "]", "]", NL>>,
          <<"}", NL>> \o FrameHum50 \o <<NL>>,
          <<NL>>, <<" ", NL>>}

T_recvFrames == RecvFrom(FrameChunks)

\* The ESP32 is connected and auto-started, nothing received yet.
InitTele ==
  /\ target = [ip |-> DevIp, port |-> DefaultPort]
  /\ dev = "esp"
  /\ rdr = [pc |-> "read", s |-> NoSock, ip |-> "", port |-> 0, e |-> "", carried |-> 0]
  /\ red = RedIdle
  /\ snd = [t \in Callers |-> IdleCall]
  /\ buf = <<>> /\ last_telemetry = EmptyDict /\ last_ack = EmptyDict
  /\ NoLockStep /\ NoSideStep
  /\ esp = SetEspState(1, TRUE, DevIp, DefaultPort, "")
  /\ rec = [pc |-> "check", ip |-> DevIp, port |-> DefaultPort, s |-> 1,
            hello |-> <<>>, e |-> ""]
  /\ sent_start_after_connect = TRUE
  /\ socks = [k \in Socks |->
               IF k = 1 THEN [NewSock EXCEPT !.pub = TRUE, !.starts = 1]
               ELSE FreeSock]

NextTele == T_read \/ T_recvFrames \/ T_frame \/ T_pub

TeleSpec == InitTele /\ [][NextTele]_vars

\* ------------------------------------- the loops with a device that talks

\* The device sends a telemetry frame or an ack.
StoreChunks == {Append(FrameTemp20, NL), Append(FrameAck, NL)}

T_recvStore == RecvFrom(StoreChunks)

\* The three loops as in LiveNext, the peer sending frames.
NextStore ==
  \/ RecNext
  \/ T_read \/ T_recvStore \/ T_frame \/ T_pub
  \/ RedNext
  \/ EnvChange

StoreSpec == Init /\ [][NextStore]_vars

\* ------------------------------- a device cut off in the middle of a frame

\* The device sends a whole frame, or the beginning of one.
CutChunks == {Append(FrameHum50, NL), <<"{", "\"temp\"">>}

T_recvCut == RecvFrom(CutChunks)

\* The reconnector and the reader, from a connected device that can go
\* away and come back.
NextCut == RecNext \/ T_read \/ T_recvCut \/ T_frame \/ T_pub \/ EnvChange

CutSpec == InitTele /\ [][NextCut]_vars

\* ------------------------------------------------- the scan on its own

\* How many addresses one scan probes.
NumCands == 3
Cands == 1..NumCands

\* What a candidate does when probed: it refuses the connection, says
\* nothing, resets, or sends a greeting (the ESP32's, the ESP32's with a byte
\* that is no UTF-8 inside its signature, another device's).
ProbeAnswers ==
  {[kind |-> "refused", data |-> <<>>], Timeout, RecvError,
   Bytes(GreetingEsp),
   Bytes(<<"{", "\"hello\"", BadByte, ":", "\"esp32\"", "}", NL>>),
   Bytes(<<"{", "\"hello\"", ":", "\"esp8266\"", "}", NL>>)}

\* _probe_esp, lines 292-310, against a candidate that answers a: any
\* exception gives False, a timeout of recv gives b"".
probe_esp(a) ==
  IF a.kind \in {"refused", "error"} THEN FALSE
  ELSE Contains(Decode(a.data), HELLO_SIGNATURE)

otherVars ==
  <<esp, target, sent_start_after_connect, rec, rdr, red, snd, socks, dev,
    telemetryVars, lockVars, now, start_time, sent, cam, thr>>

\* Lines 325-326: a future per candidate is submitted.
V_submit ==
  /\ scan.pc = "idle"
  /\ \E answers \in [Cands -> ProbeAnswers] :
       scan' = [ScanIdle EXCEPT !.pc = "probing", !.answers = answers]
  /\ UNCHANGED otherVars

\* A worker's _probe_esp returns: its future is completed.
V_probe(c) ==
  /\ scan.pc = "probing"
  /\ \A i \in 1..Len(scan.completed) : scan.completed[i].ip # c
  /\ scan' = [scan EXCEPT !.completed =
                 Append(@, [ip |-> c, ok |-> probe_esp(scan.answers[c])])]
  /\ UNCHANGED otherVars

\* Lines 327-337: as_completed hands over the next completed future; the
\* scan returns its address if it matched, and None after the last one.
V_take ==
  /\ scan.pc = "probing"
  /\ scan.taken < Len(scan.completed)
  /\ LET f == scan.completed[scan.taken + 1]
     IN  scan' = IF f.ok
                 THEN [scan EXCEPT !.pc = "returned", !.result = f.ip,
                                   !.taken = scan.taken + 1]
                 ELSE IF scan.taken + 1 = NumCands
                 THEN [scan EXCEPT !.pc = "returned", !.result = NoCand,
                                   !.taken = scan.taken + 1]
                 ELSE [scan EXCEPT !.taken = scan.taken + 1]
  /\ UNCHANGED otherVars

\* Before the first scan of rediscover_loop: no target, not connected.
InitScan ==
  /\ target = [ip |-> NoneIp, port |-> DefaultPort]
  /\ esp = SetEspState(NoSock, FALSE, NoneIp, DefaultPort, MsgNotYet)
  /\ sent_start_after_connect = FALSE
  /\ rec = [pc |-> "check", ip |-> NoneIp, port |-> 0, s |-> NoSock,
            hello |-> <<>>, e |-> ""]
  /\ rdr = [pc |-> "read", s |-> NoSock, ip |-> "", port |-> 0, e |-> "", carried |-> 0]
  /\ red = [RedIdle EXCEPT !.pc = "scan", !.port = DefaultPort]
  /\ snd = [t \in Callers |-> IdleCall]
  /\ socks = [k \in Socks |-> FreeSock]
  /\ dev = "esp"
  /\ buf = <<>> /\ last_telemetry = EmptyDict /\ last_ack = EmptyDict
  /\ NoLockStep /\ NoSideStep

NextScan == V_submit \/ (\E c \in Cands : V_probe(c)) \/ V_take

ScanSpec == InitScan /\ [][NextScan]_vars

\* ------------------------------------- the recognition loop on its own

\* The clock stops here.
MaxTime == 6
\* At most this many faces in a frame.
MaxFaces == 2
\* Line 716: the hold, in seconds.
HoldSeconds == 2

\* A detected face: classified with a confidence above 0.8 (line 713) or not
\* (line 723), too small to be classified (line 692), or one whose
\* processing raises (caught at line 728).
FaceKinds == {"high", "low", "small", "error"}

\* The faces of fs that get classified: those before the first one whose
\* processing raises, the small ones left out.
RECURSIVE Classified(_)
Classified(fs) ==
  IF fs = <<>> \/ Head(fs) = "error" THEN <<>>
  ELSE IF Head(fs) = "small" THEN Classified(Tail(fs))
  ELSE <<Head(fs)>> \o Classified(Tail(fs))

\* The frame showed a confidence above 0.8.
ShowsHigh(fs) == \E i \in 1..Len(Classified(fs)) : Classified(fs)[i] = "high"

camVars == <<target, sent_start_after_connect, rec, rdr, red, dev, telemetryVars,
             lockVars, scan, thr>>

\* Lines 675-686 and 725-727: the next frame is read, some time after the
\* last one. cap.read() gives None (the loop starts over), a frame with no
\* face (the trigger is reset), or a frame with faces.
F_frame ==
  /\ cam.pc = "frame"
  /\ \E t \in {now, now + 1} :
       /\ t <= MaxTime
       /\ now' = t
       /\ \/ UNCHANGED <<cam, start_time, sent>>
          \/ /\ cam' = [cam EXCEPT !.gap = t, !.reset = t, !.fires = 0]
             /\ start_time' = 0 /\ sent' = FALSE
          \/ \E fs \in UNION {[1..n -> FaceKinds] : n \in 1..MaxFaces} :
               /\ cam' = [cam EXCEPT !.pc = "face", !.faces = fs,
                                     !.gap = IF ShowsHigh(fs) THEN @ ELSE t]
               /\ UNCHANGED <<start_time, sent>>
  /\ UNCHANGED <<esp, snd, socks, camVars>>

\* After a face: the next one, or the next frame.
Onward(fs) == IF fs = <<>> THEN "frame" ELSE "face"

\* Lines 689-724 for the next face of the frame.
F_face ==
  /\ cam.pc = "face"
  /\ LET f == Head(cam.faces)
         rest == Tail(cam.faces)
     IN  CASE f = "small" ->
                /\ cam' = [cam EXCEPT !.pc = Onward(rest), !.faces = rest]
                /\ UNCHANGED <<start_time, sent, snd>>
           [] f = "error" ->
                /\ cam' = [cam EXCEPT !.pc = "frame", !.faces = <<>>]
                /\ UNCHANGED <<start_time, sent, snd>>
           [] f = "low" ->
                /\ cam' = [cam EXCEPT !.pc = Onward(rest), !.faces = rest,
                                      !.reset = now, !.fires = 0]
                /\ start_time' = 0 /\ sent' = FALSE
                /\ UNCHANGED snd
           [] f = "high" /\ start_time = 0 ->
                /\ cam' = [cam EXCEPT !.pc = Onward(rest), !.faces = rest]
                /\ start_time' = now
                /\ UNCHANGED <<sent, snd>>
           [] f = "high" /\ start_time # 0
                        /\ now - start_time >= HoldSeconds /\ ~sent ->
                /\ cam' = [cam EXCEPT !.pc = "sending", !.faces = rest,
                                      !.fires = @ + 1, !.total = Min(@ + 1, 2)]
                /\ snd' = [snd EXCEPT !["main"] = Called(StartKind, PyNone, PyNone, esp)]
                /\ UNCHANGED <<start_time, sent>>
           [] OTHER ->
                /\ cam' = [cam EXCEPT !.pc = Onward(rest), !.faces = rest]
                /\ UNCHANGED <<start_time, sent, snd>>
  /\ socks' = Collect(socks, esp, rec, rdr, snd')
  /\ UNCHANGED <<esp, now, camVars>>

\* A trigger that is disarmed only by a call that succeeded.
F_sentIfOk ==
  /\ cam.pc = "sending"
  /\ snd["main"].pc = "done"
  /\ sent' = snd["main"].res.ok
  /\ snd' = [snd EXCEPT !["main"] = IdleCall]
  /\ cam' = [cam EXCEPT !.pc = Onward(cam.faces)]
  /\ UNCHANGED <<esp, socks, now, start_time, camVars>>

\* Lines 717-722: send_command has returned; sent is set whatever it
\* returned.
F_sent ==
  /\ cam.pc = "sending"
  /\ snd["main"].pc = "done"
  /\ sent' = TRUE
  /\ snd' = [snd EXCEPT !["main"] = IdleCall]
  /\ cam' = [cam EXCEPT !.pc = Onward(cam.faces)]
  /\ UNCHANGED <<esp, socks, now, start_time, camVars>>

\* The recognition loop starts while the device is connected (the
\* reconnector has published its socket and sent the automatic start) or
\* while it is not.
InitRecog ==
  /\ target = [ip |-> DevIp, port |-> DefaultPort]
  /\ \E connected \in BOOLEAN :
       IF connected
       THEN /\ esp = SetEspState(1, TRUE, DevIp, DefaultPort, "")
            /\ socks = [k \in Socks |->
                          IF k = 1 THEN [NewSock EXCEPT !.pub = TRUE, !.starts = 1]
                          ELSE FreeSock]
            /\ sent_start_after_connect = TRUE
       ELSE /\ esp = SetEspState(NoSock, FALSE, DevIp, DefaultPort, MsgNotYet)
            /\ socks = [k \in Socks |-> FreeSock]
            /\ sent_start_after_connect = FALSE
  /\ rec = [pc |-> "check", ip |-> NoneIp, port |-> 0, s |-> NoSock,
            hello |-> <<>>, e |-> ""]
  /\ rdr = [pc |-> "read", s |-> NoSock, ip |-> "", port |-> 0, e |-> "", carried |-> 0]
  /\ red = RedIdle
  /\ snd = [t \in Callers |-> IdleCall]
  /\ dev = "esp"
  /\ buf = <<>> /\ last_telemetry = EmptyDict /\ last_ack = EmptyDict
  /\ NoLockStep /\ NoSideStep

NextRecog == F_frame \/ F_face \/ S_send("main") \/ S_pub("main") \/ F_sent

RecogSpec == InitRecog /\ [][NextRecog]_vars

\* ---------------------------------------------- the three locks and the I/O

\* The code of each thread reduced to its lock and socket operations:
\* <<"acq", l>> and <<"rel", l>> enter and leave "with l", <<"io", c>> is the
\* blocking socket call c, <<"close">> is s.close(), <<"go", D>> goes on at
\* one of the distances D from here (a test, a loop, an exception), and
\* <<"end">> ends the thread. After the last operation the code starts over.

\* _set_esp_state, lines 109-111.
SetStateOps == << <<"acq", "_esp_lock">>, <<"rel", "_esp_lock">> >>

\* send_to_esp_raw sending inside "with _esp_lock".
SendLockedOps ==
  << <<"acq", "_esp_lock">>, <<"go", {1, 2}>>, <<"io", "send">>,
     <<"rel", "_esp_lock">>, <<"go", {1, 3}>> >> \o SetStateOps

\* send_to_esp_raw, lines 118-127: the copy under the lock, the test of line
\* 120, s.send, and _set_esp_state in the except clause.
SendOps ==
  << <<"acq", "_esp_lock">>, <<"rel", "_esp_lock">>, <<"go", {1, 5}>>,
     <<"io", "send">>, <<"go", {1, 3}>> >> \o SetStateOps

Code(t) ==
  CASE t = "status" ->        \* lines 85-91
         << <<"acq", "_esp_lock">>, <<"rel", "_esp_lock">> >>
    [] t = "telemetry" ->     \* lines 95-99
         << <<"acq", "_last_t_lock">>, <<"rel", "_last_t_lock">> >>
    [] t = "send_command" ->  \* lines 129-188: validation, then send_to_esp_raw
         SendOps
    [] t = "main" ->          \* lines 717 and 742-747
         SendOps \o << <<"go", {-Len(SendOps), 1}>>,
                       <<"acq", "_esp_lock">>, <<"close">>, <<"rel", "_esp_lock">>,
                       <<"end">> >>
    [] t = "esp_reconnector" ->   \* lines 347-388
         LET try == << <<"io", "connect">>,
                       <<"go", {1, Len(SetStateOps) + Len(SendOps) + 4}>>,
                       <<"io", "recv">>,
                       <<"go", {1, Len(SetStateOps) + Len(SendOps) + 2}>> >>
                      \o SetStateOps \o SendOps
                      \o << <<"go", {Len(SetStateOps) + 1}>> >>
                      \o SetStateOps
         IN  << <<"acq", "_esp_lock">>, <<"rel", "_esp_lock">>,
                <<"go", {1, Len(try) + 4}>>,
                <<"acq", "_target_lock">>, <<"rel", "_target_lock">>,
                <<"go", {1, Len(try) + 1}>> >> \o try
    [] t = "telemetry_reader" ->  \* lines 394-426
         << <<"acq", "_esp_lock">>, <<"rel", "_esp_lock">>, <<"go", {1, 8}>>,
            <<"io", "recv">>, <<"go", {1, 4, 6}>>,
            <<"acq", "_last_t_lock">>, <<"rel", "_last_t_lock">>,
            <<"go", {-2, 3}>> >> \o SetStateOps
    [] t = "rediscover_loop" ->   \* lines 430-442
         << <<"acq", "_esp_lock">>, <<"rel", "_esp_lock">>,
            <<"acq", "_target_lock">>, <<"rel", "_target_lock">>,
            <<"go", {1, Len(SetStateOps) + 5}>>,
            <<"io", "probe">>, <<"go", {1, Len(SetStateOps) + 3}>>,
            <<"acq", "_target_lock">>, <<"rel", "_target_lock">> >> \o SetStateOps

\* The operation thread t is at.
Op(t) == Code(t)[thr[t].pc]

\* Position p of thread t, the code starting over after its last operation.
Wrap(t, p) == IF p > Len(Code(t)) THEN 1 ELSE p

holdVars ==
  <<esp, target, sent_start_after_connect, rec, rdr, red, snd, socks, dev,
    telemetryVars, lockVars, scan, now, start_time, sent, cam>>

\* with l: the thread goes on when no thread holds l.
H_acquire(t) ==
  /\ Op(t)[1] = "acq"
  /\ \A u \in Threads : Op(t)[2] \notin thr[u].held
  /\ thr' = [thr EXCEPT ![t] = [pc |-> Wrap(t, @.pc + 1),
                                 held |-> @.held \cup {Op(t)[2]}]]
  /\ UNCHANGED holdVars

\* The end of a with block.
H_release(t) ==
  /\ Op(t)[1] = "rel"
  /\ thr' = [thr EXCEPT ![t] = [pc |-> Wrap(t, @.pc + 1),
                                 held |-> @.held \ {Op(t)[2]}]]
  /\ UNCHANGED holdVars

\* A socket call returns or raises; a test or an exception chooses where
\* the thread goes on.
H_other(t) ==
  /\ \/ /\ Op(t)[1] \in {"io", "close"}
        /\ thr' = [thr EXCEPT ![t].pc = Wrap(t, @ + 1)]
     \/ /\ Op(t)[1] = "go"
        /\ \E d \in Op(t)[2] : thr' = [thr EXCEPT ![t].pc = Wrap(t, @ + d)]
  /\ UNCHANGED holdVars

NextHold == \E t \in Threads : H_acquire(t) \/ H_release(t) \/ H_other(t)

HoldSpec == InitTele /\ [][NextHold]_vars

\* ------------------------------------------------- the lock on its own

mainVars ==
  <<target, sent_start_after_connect, rec, rdr, red, snd, socks, dev, telemetryVars,
    sideVars>>

\* Arguments _set_esp_state is called with (lines 374, 404, 441).
Publications ==
  {SetEspState(1, TRUE, DevIp, DefaultPort, ""),
   SetEspState(NoSock, FALSE, DevIp, DefaultPort, ErrPeerClosed),
   SetEspState(NoSock, FALSE, NoneIp, DefaultPort, MsgNotYet)}

\* A thread is in one function at a time.
Elsewhere(t) ==
  /\ t \in Setters => setter[t].pc = "idle"
  /\ t \in Getters => getter[t].pc = "idle"

\* Lines 109-110: _set_esp_state is called and enters with _esp_lock.
L_enter(w) ==
  /\ Elsewhere(w) /\ esp_lock = "free"
  /\ esp_lock' = w
  /\ \E r \in Publications :
       setter' = [setter EXCEPT ![w] = [pc |-> "in", args |-> r, n |-> 0]]
  /\ UNCHANGED <<esp, getter, published, mainVars>>

\* Line 111: update stores the next key; after the last the lock is released.
L_store(w) ==
  /\ setter[w].pc = "in"
  /\ LET f == Fields[setter[w].n + 1]
     IN  esp' = [esp EXCEPT ![f] = setter[w].args[f]]
  /\ IF setter[w].n + 1 = Len(Fields)
     THEN /\ setter' = [setter EXCEPT ![w] = IdleSetter]
          /\ published' = published \cup {setter[w].args}
          /\ esp_lock' = "free"
     ELSE /\ setter' = [setter EXCEPT ![w].n = setter[w].n + 1]
          /\ UNCHANGED <<published, esp_lock>>
  /\ UNCHANGED <<getter, mainVars>>

\* A reader that does not take the lock.
G_enterUnlocked(g) ==
  /\ Elsewhere(g)
  /\ getter' = [getter EXCEPT ![g] = [IdleGetter EXCEPT !.pc = "in"]]
  /\ UNCHANGED <<esp, esp_lock, setter, published, mainVars>>

\* Lines 85, 118, 394: with _esp_lock.
G_enter(g) ==
  /\ Elsewhere(g) /\ esp_lock = "free"
  /\ esp_lock' = g
  /\ getter' = [getter EXCEPT ![g] = [IdleGetter EXCEPT !.pc = "in"]]
  /\ UNCHANGED <<esp, setter, published, mainVars>>

\* Lines 87-90, 119, 395-396: the next key is read (telemetry_reader takes
\* sock only if connected); after the last the lock is released.
G_load(g) ==
  /\ getter[g].pc = "in"
  /\ LET f == Reads(g)[getter[g].n + 1]
         v == IF g = "telemetry_reader" /\ f = "sock" /\ ~getter[g].seen.connected
              THEN NoSock ELSE esp[f]
         last == getter[g].n + 1 = Len(Reads(g))
     IN  /\ getter' = [getter EXCEPT ![g].seen[f] = v, ![g].n = getter[g].n + 1,
                                      ![g].pc = IF last THEN "done" ELSE "in"]
         /\ esp_lock' = IF last /\ esp_lock = g THEN "free" ELSE esp_lock
  /\ UNCHANGED <<esp, setter, published, mainVars>>

\* The reader goes on with what it read.
G_return(g) ==
  /\ getter[g].pc = "done"
  /\ getter' = [getter EXCEPT ![g] = IdleGetter]
  /\ UNCHANGED <<esp, esp_lock, setter, published, mainVars>>

InitLock ==
  /\ esp = FirstEsp
  /\ target = [ip |-> NoneIp, port |-> DefaultPort]
  /\ sent_start_after_connect = FALSE
  /\ rec = [pc |-> "check", ip |-> NoneIp, port |-> 0, s |-> NoSock,
            hello |-> <<>>, e |-> ""]
  /\ rdr = [pc |-> "read", s |-> NoSock, ip |-> "", port |-> 0, e |-> "", carried |-> 0]
  /\ red = RedIdle
  /\ snd = [t \in Callers |-> IdleCall]
  /\ socks = [k \in Socks |-> FreeSock]
  /\ dev = "esp"
  /\ buf = <<>> /\ last_telemetry = EmptyDict /\ last_ack = EmptyDict
  /\ esp_lock = "free"
  /\ setter = [w \in Setters |-> IdleSetter]
  /\ getter = [g \in Getters |-> IdleGetter]
  /\ published = {FirstEsp}
  /\ NoSideStep

NextLock ==
  \/ \E w \in Setters : L_enter(w) \/ L_store(w)
  \/ \E g \in Getters : G_enter(g) \/ G_load(g) \/ G_return(g)

LockSpec == InitLock /\ [][NextLock]_vars

\* ----------------------------------------------- send_command on its own

\* The requests: every kind of the docstring, kinds in other cases and with
\* blanks around, a kind that does not exist and no kind at all; the states,
\* angles and raw texts, good and bad; the indexes around 1..3.
GridKinds ==
  {PyStr(<<k>>) : k \in {"light", "fan", "door", "servo", "led", "start",
                         "ping", "raw", "LIGHT", "bogus"}}
    \cup {PyStr(<<" ", "Start", NL>>), PyNone}

GridValues ==
  {PyStr(<<v>>) : v \in {"on", "off", "ON", "open", "Close", "dim", "90", "ping"}}
    \cup {PyStr(<<"ping", NL>>), PyStr(<<>>), PyNone}
    \cup {PyInt(300), PyInt(-10), PyInt(90)}

GridIndexes == {PyNone} \cup {PyInt(i) : i \in 0..4}

\* The system at rest with the ESP32 connected and auto-started, or not yet
\* connected, and no call in progress.
InitCmd ==
  /\ target = [ip |-> DevIp, port |-> DefaultPort]
  /\ dev = "esp"
  /\ rdr = [pc |-> "read", s |-> NoSock, ip |-> "", port |-> 0, e |-> "", carried |-> 0]
  /\ red = RedIdle
  /\ snd = [t \in Callers |-> IdleCall]
  /\ buf = <<>> /\ last_telemetry = EmptyDict /\ last_ack = EmptyDict
  /\ NoLockStep /\ NoSideStep
  /\ \/ /\ esp = SetEspState(NoSock, FALSE, DevIp, DefaultPort, MsgNotYet)
        /\ rec = [pc |-> "check", ip |-> NoneIp, port |-> 0, s |-> NoSock,
                  hello |-> <<>>, e |-> ""]
        /\ sent_start_after_connect = FALSE
        /\ socks = [k \in Socks |-> FreeSock]
     \/ /\ esp = SetEspState(1, TRUE, DevIp, DefaultPort, "")
        /\ rec = [pc |-> "check", ip |-> DevIp, port |-> DefaultPort, s |-> 1,
                  hello |-> <<>>, e |-> ""]
        /\ sent_start_after_connect = TRUE
        /\ socks = [k \in Socks |->
                     IF k = 1 THEN [NewSock EXCEPT !.pub = TRUE, !.starts = 1]
                     ELSE FreeSock]

W_callGrid == CallFrom(GridKinds, GridValues, GridIndexes)

NextCmd == W_callGrid \/ S_send("web") \/ S_pub("web") \/ W_return

CmdSpec == InitCmd /\ [][NextCmd]_vars

\* --------------------------------------------------------------- claims

OpenSocks == {k \in Socks : socks[k].st = "open"}

\* The reconnector is between publishing Connected for socket k and the
\* return of its send_command("start").
AutoStartPending(k) == rec.s = k /\ rec.pc \in {"rearm", "start"}

C2_AtMostOneOpenSocket == Cardinality(OpenSocks) <= 1

\* A send or a recv is performed on socket k in this step.
SendOn(t, k) == snd[t].pc = "send" /\ snd[t].s = k /\ snd'[t].pc # "send"
RecvOn(k) == rdr.pc = "recv" /\ rdr.s = k /\ rdr'.pc # "recv"

\* C3 as stated: no send or recv is performed on a socket after NotConnected
\* has been published for a failure on it.
C3_NoUseAfterFailurePublished ==
  [][\A k \in Socks :
       socks[k].failed => ~(RecvOn(k) \/ \E t \in Callers : SendOn(t, k))]_vars

\* The texts only telemetry_reader publishes.
ReaderTexts == {ErrPeerClosed, ErrUnreach}

ReaderPublishes == rdr.pc = "pub" /\ rdr'.pc # "pub"
ReaderPolledOn == rdr.pc = "recv" /\ rdr'.pc \in {"read", "frames"}

ReaderRecord ==
  [sock |-> NoSock, connected |-> FALSE, ip |-> rdr.ip, port |-> rdr.port,
   last_error |-> rdr.e]

\* C4 as stated: the reader's failure is published as NotConnected with no
\* socket and its non-empty text, a status query sees connected = false with
\* that text until the next successful reconnect, and a poll timeout changes
\* nothing.
C4_ReaderErrorKeptUntilReconnect ==
  [][/\ ReaderPublishes => (esp' = ReaderRecord /\ rdr.e \in ReaderTexts)
     /\ (~status.esp_connected /\ status.last_error \in ReaderTexts)
          => (status'.esp_connected \/ status'.last_error = status.last_error)
     /\ ReaderPolledOn => esp' = esp]_vars

\* C4 amended: as C4, but what a status query sees until the next successful
\* reconnect is connected = false with a non-empty last_error, which is the
\* reader's text only until another publication (a failed reconnect attempt,
\* a failed send, a rediscovery) replaces it; connected turns true again only
\* when the reconnector publishes a new connection.
C4_ReaderFailurePublished ==
  /\ [](~status.esp_connected => (status.last_error # "" /\ esp.sock = NoSock))
  /\ [][/\ ReaderPublishes => (esp' = ReaderRecord /\ rdr.e \in ReaderTexts)
        /\ (~status.esp_connected /\ status'.esp_connected)
             => (rec.pc = "publish" /\ rec'.pc = "rearm")
        /\ ReaderPolledOn => esp' = esp]_vars

\* The reader has published "peer closed" and a status query sees it.
C4_Witness ==
  /\ ~status.esp_connected /\ status.last_error = ErrPeerClosed
  /\ rdr.pc = "read" /\ rdr.s # NoSock /\ socks[rdr.s].failed

SenderPublishes(t) == snd[t].pc = "pub" /\ snd'[t].pc # "pub"

\* C5: when the write of a send_command call raised, the call publishes
\* NotConnected with the error text as last_error and no socket, returns
\* (False, "socket error: <text>"), and has called send once only.
C5_WriteErrorPublishedNoRetry ==
  /\ [](\A t \in Callers :
          /\ snd[t].sends <= 1
          /\ snd[t].pc = "pub" => (snd[t].sends = 1 /\ snd[t].e # "" /\ snd[t].wrote = <<>>))
  /\ [][\A t \in Callers :
          SenderPublishes(t) =>
            /\ esp' = [sock |-> NoSock, connected |-> FALSE, ip |-> snd[t].ip,
                       port |-> snd[t].port, last_error |-> snd[t].e]
            /\ snd'[t].pc = "done"
            /\ snd'[t].res = [ok |-> FALSE, msg |-> <<"socket error: ", snd[t].e>>]
            /\ snd'[t].sends = 1 /\ snd'[t].wrote = <<>>]_vars

\* A caller's write raised: the caller has its failure result and the
\* status shows the error.
C5_Witness ==
  /\ snd["web"].pc = "done"
  /\ snd["web"].res = [ok |-> FALSE, msg |-> <<"socket error: ", ErrPipe>>]
  /\ ~esp.connected /\ esp.last_error = ErrPipe

\* sig occurs in the bytes as read, position by position.
BytesContain(bytes, sig) ==
  \E i \in 1..Len(bytes) :
    /\ i + Len(sig) - 1 <= Len(bytes)
    /\ \A j \in 1..Len(sig) : bytes[i + j - 1] = sig[j]

\* C9 as stated: Connected is published only by the reconnector and only
\* when the bytes read in the handshake contain the signature; otherwise the
\* socket is closed and the attempt fails with the handshake-failed text.
C9_ConnectedOnlyWithSignature ==
  [][/\ (~esp.connected /\ esp'.connected) => (rec.pc = "publish" /\ esp'.sock = rec.s)
     /\ (rec.pc = "verify" /\ rec'.pc = "publish")
          => BytesContain(rec.hello, HELLO_SIGNATURE)
     /\ (rec.pc = "verify" /\ rec'.pc # "verify"
          /\ ~BytesContain(rec.hello, HELLO_SIGNATURE))
          => (rec'.pc = "fail" /\ rec'.e = ErrHandshake
              /\ socks'[rec.s].st = "closed")]_vars

\* ------------------------------------------- claims about send_command

\* The web caller enters send_command in this step; the request is in
\* snd'["web"].
Calls == snd["web"].pc = "idle" /\ snd'["web"].pc # "idle"

OnOff == {PyStr(<<"on">>), PyStr(<<"off">>)}
OpenClose == {PyStr(<<"open">>), PyStr(<<"close">>)}
LightIndexes == {PyInt(1), PyInt(2), PyInt(3)}
Numerals == {<<"90">>, <<"300">>, <<"-10">>}

IsNumeric(v) == v.t = "int" \/ (v.t = "str" /\ Strip(v.s) \in Numerals)

KindIs(c, k) == c.kind = PyStr(<<k>>)

\* A valid request as C6 and C8 list them.
ValidRequest(c) ==
  \/ KindIs(c, "light") /\ c.index \in LightIndexes /\ c.value \in OnOff
  \/ KindIs(c, "fan") /\ c.value \in OnOff
  \/ KindIs(c, "door") /\ c.value \in OpenClose
  \/ KindIs(c, "servo") /\ IsNumeric(c.value)
  \/ KindIs(c, "start")
  \/ KindIs(c, "ping")
  \/ KindIs(c, "raw") /\ c.value.t = "str" /\ c.value.s # <<>>

\* Nothing was written, the state and the sockets are as they were.
NothingDone(c) ==
  /\ c.pc = "done" /\ ~c.res.ok /\ c.wrote = <<>> /\ c.sends = 0
  /\ esp' = esp /\ socks' = socks

\* C6 as stated: a valid request made while NotConnected returns exactly
\* (False, "not connected"), writes nothing and changes nothing.
C6_NotConnectedMessage ==
  [][(Calls /\ ValidRequest(snd'["web"]) /\ ~esp.connected)
       => (NothingDone(snd'["web"])
           /\ snd'["web"].res = [ok |-> FALSE, msg |-> <<"not connected">>])]_vars

\* C6 amended: a valid request made while NotConnected returns exactly
\* (False, "esp not connected"), writes nothing and changes nothing.
C6_EspNotConnectedMessage ==
  [][(Calls /\ ValidRequest(snd'["web"]) /\ ~esp.connected)
       => (NothingDone(snd'["web"])
           /\ snd'["web"].res = [ok |-> FALSE, msg |-> <<"esp not connected">>])]_vars

\* A valid servo request made while NotConnected has returned.
C6_Witness ==
  /\ snd["web"].pc = "done" /\ KindIs(snd["web"], "servo")
  /\ snd["web"].value = PyInt(300)
  /\ snd["web"].res.msg = <<"esp not connected">> /\ ~esp.connected

Kinds == {"light", "fan", "door", "servo", "start", "ping", "raw"}

\* An invalid request as C7 lists them, the texts compared as they are.
InvalidRequest(c) ==
  \/ KindIs(c, "light") /\ (c.index \notin LightIndexes \/ c.value \notin OnOff)
  \/ KindIs(c, "fan") /\ c.value \notin OnOff
  \/ KindIs(c, "door") /\ c.value \notin OpenClose
  \/ KindIs(c, "servo") /\ ~IsNumeric(c.value)
  \/ KindIs(c, "raw") /\ ~(c.value.t = "str" /\ c.value.s # <<>>)
  \/ \A k \in Kinds : ~KindIs(c, k)

\* C7 as stated: an invalid request returns ok = false, writes nothing and
\* changes nothing, Connected or not.
C7_InvalidRejected ==
  [][(Calls /\ InvalidRequest(snd'["web"])) => NothingDone(snd'["web"])]_vars

\* The kind and the state as send_command compares them: lower-cased, the
\* kind stripped of blanks, None as the text "None".
KindOf(c) == IF c.kind.t = "str" THEN Strip(Lower(c.kind.s)) ELSE <<>>
StateOf(c) ==
  Lower(IF c.value.t = "str" THEN c.value.s
        ELSE IF c.value.t = "int" THEN <<ToString(c.value.n)>> ELSE <<"None">>)

\* The message of the validation that fails first, "" when none fails.
Complaint(c) ==
  CASE KindOf(c) = <<"light">> ->
         IF c.index \notin LightIndexes THEN "invalid light index"
         ELSE IF StateOf(c) \notin {<<"on">>, <<"off">>} THEN "invalid light state"
         ELSE ""
    [] KindOf(c) = <<"fan">> ->
         IF StateOf(c) \notin {<<"on">>, <<"off">>} THEN "invalid fan state" ELSE ""
    [] KindOf(c) = <<"led">> ->
         IF StateOf(c) \notin {<<"on">>, <<"off">>} THEN "invalid led state" ELSE ""
    [] KindOf(c) = <<"door">> ->
         IF StateOf(c) \notin {<<"open">>, <<"close">>} THEN "invalid door state" ELSE ""
    [] KindOf(c) = <<"servo">> ->
         IF ~IsNumeric(c.value) THEN "invalid servo angle" ELSE ""
    [] KindOf(c) = <<"raw">> ->
         IF ~(c.value.t = "str" /\ c.value.s # <<>>) THEN "invalid raw command" ELSE ""
    [] KindOf(c) \in {<<"start">>, <<"ping">>} -> ""
    [] OTHER -> "unknown command"

\* C7 amended: a request that is invalid once its kind is lower-cased and
\* stripped and its state lower-cased ("led" being a kind too, an alias of
\* light 1) returns ok = false with the message of the failed validation,
\* writes nothing and changes nothing, Connected or not; every other request
\* goes on to the socket test.
C7_InvalidAfterNormalisationRejected ==
  [][Calls =>
       IF Complaint(snd'["web"]) # ""
       THEN /\ NothingDone(snd'["web"])
            /\ snd'["web"].res.msg = <<Complaint(snd'["web"])>>
       ELSE IF esp.connected
       THEN snd'["web"].pc = "send" /\ snd'["web"].s = esp.sock
       ELSE snd'["web"].res.msg = <<"esp not connected">>]_vars

\* light with index 4 was rejected while Connected.
C7_Witness ==
  /\ snd["web"].pc = "done" /\ KindIs(snd["web"], "light")
  /\ snd["web"].index = PyInt(4) /\ snd["web"].value = PyStr(<<"on">>)
  /\ snd["web"].res = [ok |-> FALSE, msg |-> <<"invalid light index">>]
  /\ esp.connected

Clamped(a) == IF a > 180 THEN 180 ELSE IF a < 0 THEN 0 ELSE a

NumberOf(v) ==
  IF v.t = "int" THEN v.n
  ELSE CASE Strip(v.s) = <<"90">> -> 90
         [] Strip(v.s) = <<"300">> -> 300
         [] OTHER -> -10

\* The wire form of a valid request.
WireForm(c) ==
  CASE KindIs(c, "light") -> <<"light", ToString(c.index.n), ":">> \o c.value.s
    [] KindIs(c, "fan") -> <<"fan", ":">> \o c.value.s
    [] KindIs(c, "door") -> <<"door", ":">> \o c.value.s
    [] KindIs(c, "servo") -> <<"servo", ":", ToString(Clamped(NumberOf(c.value)))>>
    [] KindIs(c, "start") -> <<"start">>
    [] KindIs(c, "ping") -> <<"ping">>
    [] OTHER -> c.value.s

EndsInNewline(w) == w # <<>> /\ w[Len(w)] = NL

\* The web caller's write returns in this step.
Writes == snd["web"].pc = "send" /\ snd'["web"].pc = "done"

\* C8 as stated: a valid request made while Connected goes to the socket,
\* and what its write puts there is the wire form followed by one newline,
\* once.
C8_WireFormThenNewline ==
  [][/\ (Calls /\ ValidRequest(snd'["web"]) /\ esp.connected)
          => (snd'["web"].pc = "send" /\ snd'["web"].s = esp.sock)
     /\ (Writes /\ ValidRequest(snd["web"]))
          => /\ snd'["web"].wrote = WireForm(snd["web"]) \o <<NL>>
             /\ snd'["web"].sends = 1 /\ snd'["web"].res.ok]_vars

\* C8 amended: as C8, but a wire form that already ends in a newline (a raw
\* value can) is written as it is, with no newline added.
C8_WireFormNewlineTerminated ==
  [][/\ (Calls /\ ValidRequest(snd'["web"]) /\ esp.connected)
          => (snd'["web"].pc = "send" /\ snd'["web"].s = esp.sock)
     /\ (Writes /\ ValidRequest(snd["web"]))
          => /\ snd'["web"].wrote =
                  IF EndsInNewline(WireForm(snd["web"]))
                  THEN WireForm(snd["web"])
                  ELSE WireForm(snd["web"]) \o <<NL>>
             /\ snd'["web"].sends = 1 /\ snd'["web"].res.ok]_vars

\* servo 300 was written as servo:180 and a newline.
C8_Witness ==
  /\ snd["web"].pc = "done" /\ KindIs(snd["web"], "servo")
  /\ snd["web"].value = PyInt(300)
  /\ snd["web"].wrote = <<"servo", ":", "180", NL>>

\* ------------------------------------------------- claims about liveness

\* The reconnector has just called connect.
AttemptMade == rec.pc \in {"handshake", "fail"}

\* C10: whenever a target is known and the state is NotConnected, the
\* reconnector eventually makes another connection attempt (or the attempt
\* it is in connects); and if from some point on the target is known and the
\* ESP32 is what answers there, the state is Connected again and again.
C10_ReconnectorNeverGivesUp ==
  /\ (target.ip # NoneIp /\ ~esp.connected) ~> (AttemptMade \/ esp.connected)
  /\ <>[](target.ip # NoneIp /\ dev = "esp") => []<>esp.connected

\* An attempt follows a failed handshake.
C10_Witness ==
  /\ rec.pc = "handshake" /\ ~esp.connected /\ esp.last_error = ErrHandshake

\* ------------------------------------------ claims about the shared record

\* C11: the record holds a socket exactly when its connected flag is true,
\* and last_error is empty whenever the flag is true.
C11_SocketIffConnected ==
  /\ (esp.sock # NoSock) <=> esp.connected
  /\ esp.connected => esp.last_error = ""

\* Connected again, on a second socket, after a failure was published.
C11_Witness ==
  /\ esp.connected /\ esp.sock # NoSock /\ esp.last_error = ""
  /\ \E k \in Socks \ {esp.sock} : socks[k].failed

\* What reader g has of record r in key f.
Shown(g, r, f) ==
  IF g = "telemetry_reader" /\ f = "sock" /\ ~r.connected THEN NoSock ELSE r[f]

\* C12: the record changes only in the hands of the thread that holds the
\* lock and is whole whenever the lock is free, and what a reader has read
\* when it leaves its lock section is, key for key, one published record.
C12_PublicationsAtomic ==
  /\ [](/\ esp_lock = "free" => esp \in published
        /\ \A g \in Getters :
             getter[g].pc = "done" =>
               \E r \in published :
                 \A i \in 1..Len(Reads(g)) :
                   getter[g].seen[Reads(g)[i]] = Shown(g, r, Reads(g)[i]))
  /\ [][esp' # esp => (esp_lock \in Setters /\ setter[esp_lock].pc = "in")]_vars

\* status has read "peer closed" while the reconnector is in the middle of
\* the next publication.
C12_Witness ==
  /\ getter["status"].pc = "done"
  /\ getter["status"].seen.last_error = ErrPeerClosed
  /\ esp_lock = "esp_reconnector" /\ setter["esp_reconnector"].n = 2
  /\ esp \notin published

\* ------------------------------------------------- claims about frames

\* The reader takes a line off buf in this step; the line is TheLine.
Frames == rdr.pc = "frames"
TheLine == Strip(Line(buf))

\* A well-formed frame: { name value ... }; the names it carries and the
\* value it carries for a name.
WellFormed(l) ==
  /\ Len(l) >= 2 /\ Len(l) % 2 = 0 /\ l[1] = "{" /\ l[Len(l)] = "}"
  /\ \A i \in 2..(Len(l) - 1) :
       IF i % 2 = 0 THEN l[i] \in KeyToks ELSE l[i] \in KeyToks \cup ValToks
Names(l) == {l[i] : i \in {j \in 2..(Len(l) - 1) : j % 2 = 0}}
Carried(l, k) ==
  l[1 + CHOOSE i \in 2..(Len(l) - 1) :
         i % 2 = 0 /\ l[i] = k /\ \A j \in (i + 1)..(Len(l) - 1) : j % 2 = 0 => l[j] # k]
Frame(l) == [k \in Names(l) |-> Carried(l, k)]

\* C13: a well-formed frame without the ack key gives each of its fields the
\* value it carries and leaves every other field of the snapshot as it was.
C13_ShallowMerge ==
  [][(Frames /\ WellFormed(TheLine) /\ AckKey \notin Names(TheLine)) =>
       /\ DOMAIN last_telemetry' = (DOMAIN last_telemetry) \cup Names(TheLine)
       /\ \A k \in DOMAIN last_telemetry' :
            last_telemetry'[k] = IF k \in Names(TheLine) THEN Carried(TheLine, k)
                                 ELSE last_telemetry[k]]_vars

\* Frames {temp:20}, {hum:50}, {temp:21} have given {temp:21, hum:50}.
C13_Witness ==
  /\ DOMAIN last_telemetry = {"\"temp\"", "\"hum\""}
  /\ last_telemetry["\"temp\""] = "21" /\ last_telemetry["\"hum\""] = "50"
  /\ buf = <<>> /\ rdr.pc = "read"

\* C14: a frame with the ack key becomes the ack record, whole, and leaves
\* the snapshot as it was; any other line, and any other step, leaves the ack
\* record as it was; /telemetry shows the record under "ack".
C14_AckReplacedWholesale ==
  /\ [][IF Frames /\ WellFormed(TheLine) /\ AckKey \in Names(TheLine)
         THEN /\ last_ack' = Frame(TheLine)
              /\ last_telemetry' = last_telemetry
         ELSE last_ack' = last_ack]_vars
  /\ [](last_ack # EmptyDict =>
          (AckKey \in DOMAIN telemetry /\ telemetry[AckKey] = [dict |-> last_ack]))

\* An ack frame that carried temp 21 is the ack record; the snapshot still
\* has temp 20.
C14_Witness ==
  /\ last_ack = Frame(FrameAckTemp)
  /\ DOMAIN last_telemetry = {"\"temp\""} /\ last_telemetry["\"temp\""] = "20"

\* The text the parser is given: the line decoded, bytes that are no UTF-8
\* dropped.
TheText == Decode(TheLine)

\* Not a JSON text: neither an object, nor a list, nor a scalar.
Unparseable(l) ==
  /\ ~WellFormed(l)
  /\ ~(Len(l) >= 2 /\ l[1] = "[" /\ l[Len(l)] = "]")
  /\ ~(Len(l) = 1 /\ l[1] \in KeyToks \cup ValToks)

\* C15: a line whose text is no JSON changes neither the snapshot, the ack record
\* nor the connection state, and the reader goes on with the lines after it.
C15_MalformedLineDiscarded ==
  [][(Frames /\ Unparseable(TheText)) =>
       /\ last_telemetry' = last_telemetry /\ last_ack' = last_ack
       /\ esp' = esp /\ esp.connected
       /\ buf' = Rest(buf)
       /\ HasLine(Rest(buf)) => rdr'.pc = "frames"]_vars

\* The line "}" was discarded, the frame {hum:50} that followed it in the
\* same chunk is the next line.
C15_Witness ==
  /\ rdr.pc = "frames" /\ buf = FrameHum50 \o <<NL>>
  /\ last_telemetry = EmptyDict /\ last_ack = EmptyDict /\ esp.connected

\* C16: the snapshot and the ack record change only when the reader stores a
\* line, a step that leaves the connection state alone; no field once in the
\* snapshot leaves it and the ack record, once set, is never emptied. So no
\* transition of the connection state touches them.
C16_StoreSurvivesTransitions ==
  [][/\ (last_telemetry' # last_telemetry \/ last_ack' # last_ack)
          => (rdr.pc = "frames" /\ esp' = esp)
     /\ esp' # esp => (last_telemetry' = last_telemetry /\ last_ack' = last_ack)
     /\ DOMAIN last_telemetry \subseteq DOMAIN last_telemetry'
     /\ last_ack # EmptyDict => last_ack' # EmptyDict]_vars

\* Connected again on a new socket after a failure, the values received
\* before the failure still there.
C16_Witness ==
  /\ esp.connected /\ \E k \in Socks \ {esp.sock} : socks[k].failed
  /\ rdr.pc = "read" /\ rdr.s # esp.sock
  /\ last_telemetry = Frame(FrameTemp20) /\ last_ack = Frame(FrameAck)

\* --------------------------------------------------- claims about the scan

\* The bytes candidate c sent contain the signature.
Matches(c) ==
  scan.answers[c].kind = "bytes" /\ BytesContain(scan.answers[c].data, HELLO_SIGNATURE)

\* C17 as stated: the scan returns an address only if the bytes its probe
\* read contain the signature; with exactly one matching candidate it
\* returns that one, with none it returns None; and it returns None only
\* after every probe has completed, failed probes included.
C17_ScanReturnsOnlyMatches ==
  scan.pc = "returned" =>
    /\ scan.result # NoCand => (scan.result \in Cands /\ Matches(scan.result))
    /\ \A c \in Cands :
         (Matches(c) /\ \A d \in Cands \ {c} : ~Matches(d)) => scan.result = c
    /\ (\A c \in Cands : ~Matches(c)) => scan.result = NoCand
    /\ scan.result = NoCand => Len(scan.completed) = NumCands

\* ---------------------------------------------- claims about rediscovery

\* C18 (a step of rediscover_loop is one that changes red): while
\* rediscover_loop is in the scan, the shared record is
\* NotConnected and no target is set; no step of the loop opens a socket;
\* the only record it publishes is NotConnected with the address found and
\* the message "not yet connected", and the only change it makes to the
\* target is to set the address found.
C18_RediscoveryOnlySetsTarget ==
  /\ [](red.pc = "scan" =>
         ~esp.connected /\ esp.sock = NoSock /\ target.ip = NoneIp)
  /\ [][red' # red =>
         /\ \A k \in Socks : socks'[k].st = "open" => socks[k].st = "open"
         /\ esp' # esp =>
              /\ red.pc = "pub"
              /\ esp' = SetEspState(NoSock, FALSE, red.ip_found, red.port, MsgNotYet)
         /\ target' # target =>
              /\ red.pc = "set" /\ red.ip_found # NoneIp
              /\ target' = [target EXCEPT !.ip = red.ip_found]]_vars

\* The scan found the device, the target is set, the record is about to be
\* published.
C18_Witness ==
  red.pc = "pub" /\ red.ip_found = DevIp /\ target.ip = DevIp /\ ~esp.connected

\* ------------------------------------------- claims about the trigger

\* The recognition loop calls send_command("start").
Fires == snd["main"].pc = "idle" /\ snd'["main"].pc # "idle"

\* C19 as stated: a start is fired only if no frame of the preceding two
\* seconds failed to show a confidence above 0.8, whatever the frames were
\* (confident face, unconfident face, face too small, no face, processing
\* error).
C19_FiredOnlyAfterContinuousHold ==
  [][Fires => now - cam.gap >= HoldSeconds]_vars

C21_StaleFailureLeavesNewConnection ==
  [][(esp.connected /\ ~esp'.connected) =>
       /\ (rdr.pc = "pub" /\ rdr'.pc # "pub") => rdr.s = esp.sock
       /\ \A t \in Callers :
            (snd[t].pc = "pub" /\ snd'[t].pc # "pub") => snd[t].s = esp.sock]_vars

\* C22 as stated: no step of rediscover_loop takes a Connected record to
\* NotConnected or removes its socket from the shared record.
C22_RediscoveryKeepsConnection ==
  [][(red' # red /\ esp.connected) =>
       (esp'.connected /\ esp'.sock = esp.sock)]_vars

\* ------------------------------------------------- claims about the target

\* C23: a target that has an address keeps it in every step, and
\* rediscover_loop is never in the scan, nor just back from it, while the
\* target has one, however the attempts to connect to it end.
C23_TargetNeverChangedOnceSet ==
  /\ [][target.ip # NoneIp => target' = target]_vars
  /\ [](target.ip # NoneIp => red.pc \notin {"scan", "set"})

\* The target has an address, an attempt to connect to it was refused and
\* published, and rediscover_loop, having read NotConnected, is at its test.
C23_Witness ==
  /\ target.ip = DevIp
  /\ ~esp.connected /\ esp.last_error = ErrRefused
  /\ red.pc = "tgt" /\ ~red.connected

\* ------------------------------------ claims about the reader's buffer

\* C24 as stated: the line telemetry_reader is about to split off buf never
\* holds bytes received on an earlier connection together with bytes
\* received on the present one.
C24_NoLineAcrossConnections ==
  ~(/\ rdr.pc = "frames"
    /\ rdr.carried > 0
    /\ Len(Line(buf)) > rdr.carried)

\* ------------------------------------------------ claims about the locks

\* C25: no thread holds two locks; no thread is at a blocking socket call
\* (connect, recv, send, probe) while it holds a lock; and no thread waits
\* for a lock while it holds one, so no cycle of waiting threads can form
\* and a query waits only for threads that are not in a socket call.
C25_NoLockAcrossIO ==
  \A t \in Threads :
    /\ Cardinality(thr[t].held) <= 1
    /\ Op(t)[1] = "io" => thr[t].held = {}
    /\ Op(t)[1] = "acq" => thr[t].held = {}

\* /status waits for the lock while esp_reconnector is in _set_esp_state,
\* telemetry_reader is in recv and a web request is in send.
C25_Witness ==
  /\ Op("status") = <<"acq", "_esp_lock">>
  /\ "_esp_lock" \in thr["esp_reconnector"].held
  /\ Op("telemetry_reader") = <<"io", "recv">>
  /\ Op("send_command") = <<"io", "send">>
  /\ "_last_t_lock" \in thr["telemetry"].held

====
